---- MODULE Spec2Model ----
(***************************************************************************)
(* CPPI simulation (run_cppi, run_cppi_dynamic_floor) and the frozen       *)
(* diagnostic (check_frozen) of notebooks/utils.py.                        *)
(*                                                                         *)
(* Floating-point numbers are modelled as exact rationals <<n, d>> with    *)
(* d > 0 in lowest terms; <<0, 0>> is the IEEE NaN that numpy produces     *)
(* for 0/0.  Rounding of binary floating point is not modelled.            *)
(* Timestamps are day numbers; day 0 is Friday 2025-05-30, so day 1 is the *)
(* month end Saturday 2025-05-31 and day 2 is Sunday 2025-06-01.           *)
(***************************************************************************)
EXTENDS Integers, Sequences, FiniteSets, TLC

\* ------------------------------------------------------------ bounds ----
MaxLen == 3        \* longest return series that is simulated
NumDays == 4       \* timestamps are drawn from 0 .. NumDays-1
MaxW == 10         \* longest weight sequence handed to check_frozen
MaxVals == 4       \* longest value series handed to the metrics functions

\* ------------------------------------------------- rational numbers ----
Abs(x) == IF x < 0 THEN -x ELSE x

RECURSIVE GCD(_, _)
GCD(a, b) == IF b = 0 THEN a ELSE GCD(b, a % b)

Norm(n, d) ==
    LET g == GCD(Abs(n), Abs(d))
        s == IF d < 0 THEN -1 ELSE 1
    IN  <<s * (n \div g), s * (d \div g)>>

NaN == <<0, 0>>
Zero == <<0, 1>>
One == <<1, 1>>
IsNaN(x) == x[2] = 0

Add(x, y) ==
    IF IsNaN(x) \/ IsNaN(y) THEN NaN
    ELSE LET g == GCD(x[2], y[2])
         IN  Norm(x[1] * (y[2] \div g) + y[1] * (x[2] \div g),
                  x[2] * (y[2] \div g))

Neg(x) == <<-x[1], x[2]>>

Sub(x, y) == Add(x, Neg(y))

Mul(x, y) ==
    IF IsNaN(x) \/ IsNaN(y) THEN NaN
    ELSE LET g1 == GCD(Abs(x[1]), y[2])
             g2 == GCD(Abs(y[1]), x[2])
         IN  Norm((x[1] \div g1) * (y[1] \div g2),
                  (x[2] \div g2) * (y[2] \div g1))

\* x / y of two numpy floats with a finite quotient, and 0/0 = nan
Div(x, y) ==
    IF IsNaN(x) \/ IsNaN(y) THEN NaN
    ELSE IF y[1] = 0 THEN NaN
    ELSE Mul(x, Norm(y[2], y[1]))

\* comparisons are False as soon as one side is nan
Less(x, y) == ~IsNaN(x) /\ ~IsNaN(y) /\ x[1] * y[2] < y[1] * x[2]
Leq(x, y) == ~IsNaN(x) /\ ~IsNaN(y) /\ x[1] * y[2] <= y[1] * x[2]
Eq(x, y) == ~IsNaN(x) /\ ~IsNaN(y) /\ x = y

\* Python's builtin max(a, b): b only if b > a, so max(nan, 0) is nan
PyMax(a, b) == IF Less(a, b) THEN b ELSE a

\* np.clip(x, lo, hi) = minimum(maximum(x, lo), hi); nan stays nan
Clip(x, lo, hi) ==
    IF IsNaN(x) THEN NaN
    ELSE IF Less(x, lo) THEN lo
    ELSE IF Less(hi, x) THEN hi
    ELSE x

\* ---------------------------------------------------------- calendar ----
DaysPerWeek == 7
FirstDayOfWeek == 4          \* day 0 is a Friday (Monday = 0 ... Sunday = 6)
DayOfWeek(d) == (d + FirstDayOfWeek) % DaysPerWeek

\* last calendar day of the month of day d (May 31, June 30, July 31)
MonthEnd(d) == IF d <= 1 THEN 1 ELSE IF d <= 31 THEN 31 ELSE 62

\* frequency strings: "X" stands for a string that is no pandas offset alias
Freqs == {"D", "W", "ME", "X"}
IsOffsetAliasAny(freq) == TRUE

IsOffsetAlias(freq) == freq \in {"D", "W", "ME"}

\* label of the resample bin holding day d: the day itself, the Sunday that
\* closes the week, the calendar month end
BinLabel(freq, d) ==
    CASE freq = "D" -> d
      [] freq = "W" -> d + ((DaysPerWeek - 1) - DayOfWeek(d))
      [] OTHER -> MonthEnd(d)

\* set(returns.resample(freq).first().index): one label for every bin from
\* the first row's to the last row's, empty bins included
ResampleIndexOpen(freq, rets) ==
    IF rets = <<>> THEN {}
    ELSE {BinLabel(freq, d) :
            d \in rets[1].date .. (rets[Len(rets)].date - 1)}

ResampleIndex(freq, rets) ==
    IF rets = <<>> THEN {}
    ELSE {BinLabel(freq, d) : d \in rets[1].date .. rets[Len(rets)].date}

\* ------------------------------------------------------------ inputs ----
Days == 0 .. (NumDays - 1)
SpyReturns == {<<-1, 1>>, <<-1, 10>>, <<0, 1>>, <<1, 20>>, <<1, 1>>}
ShyReturns == {<<0, 1>>, <<1, 20>>}
Floors == {<<1, 2>>, <<4, 5>>, <<3, 2>>}
Multipliers == {<<0, 1>>, <<3, 1>>}
Functions == {"run_cppi", "run_cppi_dynamic_floor"}

RECURSIVE SortedSeq(_)
SortedSeq(S) ==
    IF S = {} THEN <<>>
    ELSE LET lo == CHOOSE x \in S : \A y \in S : x <= y
         IN  <<lo>> \o SortedSeq(S \ {lo})

\* every return frame of at most MaxLen rows with increasing, unique dates
Frames ==
    UNION { LET ds == SortedSeq(D)
                k == Cardinality(D)
            IN  { [j \in 1..k |-> [date |-> ds[j], SPY |-> f[j][1], SHY |-> f[j][2]]]
                  : f \in [1..k -> SpyReturns \X ShyReturns] }
          : D \in {E \in SUBSET Days : Cardinality(E) <= MaxLen} }

\* ------------------------------------------------------------- state ----
VARIABLES
    fn,               \* which simulation is called
    returns,          \* argument: the return frame
    floor,            \* argument
    m,                \* argument
    rebalance_freq,   \* argument
    pc,               \* "start", "loop", "returned", "raised", "idle"
    i,                \* number of rows iterrows() has delivered
    portfolio_value,
    w,
    dynamic_floor,
    rebalance_dates,
    cppi_vals,        \* cppi_vals / values
    weight_risky,     \* weight_risky / weights
    error,            \* exception that left the call, "" if none
    strategy_weights, \* check_frozen: argument
    threshold,        \* check_frozen: argument
    fpc,              \* check_frozen: "idle", "call", "returned"
    frozen_result,    \* check_frozen: returned pair
    mfn,              \* which of max_drawdown, performance_metrics is called
    cumreturn_series, \* argument: the cumulative value series
    var_conf,         \* argument of performance_metrics
    mpc,              \* "idle", "call", "returned"
    metrics           \* the returned statistics

simvars == <<fn, returns, floor, m, rebalance_freq, pc, i, portfolio_value, w,
             dynamic_floor, rebalance_dates, cppi_vals, weight_risky, error>>
frozenvars == <<strategy_weights, threshold, fpc, frozen_result>>
metricvars == <<mfn, cumreturn_series, var_conf, mpc, metrics>>
vars == <<simvars, frozenvars, metricvars>>

NoResult == <<FALSE, NaN>>

\* a statistic that carries a square root is kept as its sign and its square
NanStat == [kind |-> "nan", sign |-> 0, sq |-> NaN]
NoMetrics == [sharpe |-> NanStat, vol |-> NanStat, mdd |-> NaN, var |-> NaN,
              cvar |-> NaN]

MetricsIdle ==
    /\ mfn = "max_drawdown"
    /\ cumreturn_series = <<>>
    /\ var_conf = <<19, 20>>
    /\ mpc = "idle"
    /\ metrics = NoMetrics

Init ==
    /\ fn \in Functions
    /\ returns \in Frames
    /\ floor \in Floors
    /\ m \in Multipliers
    /\ rebalance_freq \in Freqs
    /\ pc = "start"
    /\ i = 0
    /\ portfolio_value = One
    /\ w = Zero
    /\ dynamic_floor = floor
    /\ rebalance_dates = {}
    /\ cppi_vals = <<>>
    /\ weight_risky = <<>>
    /\ error = ""
    /\ strategy_weights = <<>>
    /\ threshold = <<1, 2>>
    /\ fpc = "idle"
    /\ frozen_result = NoResult
    /\ MetricsIdle

\* ------------------------------------------------- the two simulations ----
\* max(portfolio_value - floor, 0) / portfolio_value, portfolio_value # 0
\* or both operands numpy floats
CushionAbs(pv, fl) ==
    LET d == Sub(pv, fl) IN Div(IF Less(d, Zero) THEN Neg(d) ELSE d, pv)

Cushion(pv, fl) == Div(PyMax(Sub(pv, fl), Zero), pv)

\* np.clip(m * cushion, 0, 1)
RebalanceWeight(mult, pv, fl) == Clip(Mul(mult, Cushion(pv, fl)), Zero, One)

\* if date in rebalance_dates: w = np.clip(...); otherwise w is kept
NextWeightReset(reb, wt, mult, pv, fl) ==
    IF reb THEN RebalanceWeight(mult, pv, fl) ELSE Zero

NextWeight(reb, wt, mult, pv, fl) ==
    IF reb THEN RebalanceWeight(mult, pv, fl) ELSE wt

\* if w == 1.0: dynamic_floor = floor * portfolio_value
FloorUpdateAlways(wt, fl, pv, dfl) == Mul(fl, pv)

FloorUpdateNever(wt, fl, pv, dfl) == dfl

FloorUpdate(wt, fl, pv, dfl) == IF Eq(wt, One) THEN Mul(fl, pv) ELSE dfl

\* r = w * spy + (1 - w) * shy
StepReturnRiskyOnly(wt, row) == Mul(wt, row.SPY)

StepReturnSwapped(wt, row) ==
    Add(Mul(wt, row.SHY), Mul(Sub(One, wt), row.SPY))

StepReturn(wt, row) == Add(Mul(wt, row.SPY), Mul(Sub(One, wt), row.SHY))

\* portfolio_value *= (1 + r)
GrowNoBase(pv, r) == Mul(pv, r)

Grow(pv, r) == Mul(pv, Add(One, r))

\* run_cppi and run_cppi_dynamic_floor: rebalance_dates = set(...); w = 0.0
Resample ==
    /\ pc = "start"
    /\ IF IsOffsetAlias(rebalance_freq)
       THEN /\ rebalance_dates' = ResampleIndex(rebalance_freq, returns)
            /\ w' = Zero
            /\ pc' = "loop"
            /\ error' = error
       ELSE /\ pc' = "raised"
            /\ error' = "ValueError"
            /\ UNCHANGED <<rebalance_dates, w>>
    /\ UNCHANGED <<fn, returns, floor, m, rebalance_freq, i, portfolio_value,
                   dynamic_floor, cppi_vals, weight_risky>>

RunCppiResample == fn = "run_cppi" /\ Resample /\ UNCHANGED <<frozenvars, metricvars>>

DynResample == fn = "run_cppi_dynamic_floor" /\ Resample /\ UNCHANGED <<frozenvars, metricvars>>

\* one pass of the for loop of run_cppi; the float division raises
\* ZeroDivisionError when portfolio_value is 0.0
RunCppiStep ==
    /\ fn = "run_cppi"
    /\ pc = "loop"
    /\ i < Len(returns)
    /\ LET row == returns[i + 1]
           reb == row.date \in rebalance_dates
       IN  IF reb /\ portfolio_value = Zero
           THEN /\ pc' = "raised"
                /\ error' = "ZeroDivisionError"
                /\ UNCHANGED <<i, portfolio_value, w, cppi_vals, weight_risky>>
           ELSE /\ w' = NextWeight(reb, w, m, portfolio_value, floor)
                /\ portfolio_value' = Grow(portfolio_value, StepReturn(w', row))
                /\ cppi_vals' = Append(cppi_vals, portfolio_value')
                /\ weight_risky' = Append(weight_risky, w')
                /\ i' = i + 1
                /\ UNCHANGED <<pc, error>>
    /\ UNCHANGED <<fn, returns, floor, m, rebalance_freq, dynamic_floor,
                   rebalance_dates>>
    /\ UNCHANGED <<frozenvars, metricvars>>

\* one pass of the for loop of run_cppi_dynamic_floor; from the second row on
\* portfolio_value is a numpy float, so 0/0 is nan and nothing is raised
DynStep ==
    /\ fn = "run_cppi_dynamic_floor"
    /\ pc = "loop"
    /\ i < Len(returns)
    /\ LET row == returns[i + 1]
           reb == row.date \in rebalance_dates
       IN  /\ w' = NextWeight(reb, w, m, portfolio_value, dynamic_floor)
           /\ dynamic_floor' = FloorUpdate(w', floor, portfolio_value,
                                           dynamic_floor)
           /\ portfolio_value' = Grow(portfolio_value, StepReturn(w', row))
           /\ cppi_vals' = Append(cppi_vals, portfolio_value')
           /\ weight_risky' = Append(weight_risky, w')
           /\ i' = i + 1
    /\ UNCHANGED <<fn, returns, floor, m, rebalance_freq, pc, rebalance_dates,
                   error>>
    /\ UNCHANGED <<frozenvars, metricvars>>

\* the loop is exhausted: return the value series and the weight list
Return ==
    /\ pc = "loop"
    /\ i = Len(returns)
    /\ pc' = "returned"
    /\ UNCHANGED <<fn, returns, floor, m, rebalance_freq, i, portfolio_value, w,
                   dynamic_floor, rebalance_dates, cppi_vals, weight_risky,
                   error>>
    /\ UNCHANGED <<frozenvars, metricvars>>

RunCppiReturn == fn = "run_cppi" /\ Return

DynReturn == fn = "run_cppi_dynamic_floor" /\ Return

Next ==
    \/ RunCppiResample
    \/ RunCppiStep
    \/ RunCppiReturn
    \/ DynResample
    \/ DynStep
    \/ DynReturn

Spec == Init /\ [][Next]_vars

\* ------------------------------------------------------------ claims ----
\* helpers over the recorded run
RowDates == {returns[k].date : k \in 1..Len(returns)}
Recorded == 1..Len(weight_risky)
IsRebalanceStep(k) == returns[k].date \in rebalance_dates
ValueBefore(k) == IF k = 1 THEN One ELSE cppi_vals[k - 1]
WeightBefore(k) == IF k = 1 THEN Zero ELSE weight_risky[k - 1]
Positive(x) == ~IsNaN(x) /\ x[1] > 0

\* the series dates that are the first one present in their period bucket
FirstInBucket(freq, rets) ==
    {rets[k].date : k \in {j \in 1..Len(rets) :
        \A h \in 1..(j - 1) :
            BinLabel(freq, rets[h].date) # BinLabel(freq, rets[j].date)}}

\* C1: in both simulations every recorded risky weight lies in [0, 1].
C1_WeightBounds ==
    \A k \in Recorded :
        /\ ~IsNaN(weight_risky[k])
        /\ 0 <= weight_risky[k][1]
        /\ weight_risky[k][1] <= weight_risky[k][2]

\* C2 (as stated): in run_cppi_dynamic_floor no step lowers the floor level.
C2_FloorMonotonic ==
    [][fn = "run_cppi_dynamic_floor"
         => dynamic_floor[1] * dynamic_floor'[2]
              <= dynamic_floor'[1] * dynamic_floor[2]]_vars

\* C2 (amended): a step of run_cppi_dynamic_floor lowers the floor level
\* exactly when it records the weight 1.0 while floor * portfolio_value
\* (the value before the step's return) is below the current level, and the
\* level then becomes that product; every other step leaves it at least as
\* high as it was.
C2_FloorFallsOnlyAtFullAllocation ==
    [][(fn = "run_cppi_dynamic_floor" /\ i' = i + 1)
         => LET target == <<floor[1] * portfolio_value[1],
                            floor[2] * portfolio_value[2]>>
                below == target[1] * dynamic_floor[2]
                           < dynamic_floor[1] * target[2]
            IN  IF w' = One /\ below
                THEN /\ dynamic_floor'[1] * target[2]
                          = target[1] * dynamic_floor'[2]
                     /\ dynamic_floor'[1] * dynamic_floor[2]
                          < dynamic_floor[1] * dynamic_floor'[2]
                ELSE dynamic_floor[1] * dynamic_floor'[2]
                       <= dynamic_floor'[1] * dynamic_floor[2]]_vars

\* C2 witness: the floor level of a dynamic run stands below the configured
\* floor it started from, with full allocation recorded.
C2_Witness ==
    /\ fn = "run_cppi_dynamic_floor"
    /\ Len(weight_risky) >= 2
    /\ weight_risky[Len(weight_risky)] = One
    /\ dynamic_floor[1] * floor[2] < floor[1] * dynamic_floor[2]

\* C3: the dates on which the simulation rebalances are exactly the series
\* dates that come first in their bucket of the rebalance frequency.
C3_FirstDateOfEachBucket ==
    pc \in {"loop", "returned"}
      => rebalance_dates \cap RowDates = FirstInBucket(rebalance_freq, returns)

\* C4: a recorded step whose date is not a rebalance date has the weight of
\* the step before it (0.0 for the first step).
C4_WeightCarriedOver ==
    \A k \in Recorded :
        ~IsRebalanceStep(k) => weight_risky[k] = WeightBefore(k)

\* C4 witness: a non-rebalance step was recorded after a step that had set a
\* non-zero weight.
C4_Witness ==
    \E k \in Recorded :
        /\ k > 1
        /\ ~IsRebalanceStep(k)
        /\ IsRebalanceStep(k - 1)
        /\ weight_risky[k - 1] # Zero
        /\ weight_risky[k] = weight_risky[k - 1]

\* C5: a rebalance step reached with portfolio_value of zero or less raises
\* no division error and records the weight 0.
C5_ZeroValueAbsorbed ==
    /\ error # "ZeroDivisionError"
    /\ \A k \in Recorded :
          (IsRebalanceStep(k) /\ ~Positive(ValueBefore(k)))
             => weight_risky[k] = Zero

\* clamp(mult * max(pv - fl, 0) / pv, 0, 1) for pv > 0
ExpectedWeight(mult, pv, fl) ==
    LET c == IF Less(fl, pv) THEN Div(Sub(pv, fl), pv) ELSE Zero
        x == Mul(mult, c)
    IN  IF x[1] < 0 THEN Zero ELSE IF x[1] > x[2] THEN One ELSE x

\* the floor level the ratchet rule gives after k recorded steps
RECURSIVE ExpectedFloor(_)
ExpectedFloor(k) ==
    IF k = 0 THEN floor
    ELSE IF weight_risky[k] = One THEN Mul(floor, ValueBefore(k))
    ELSE ExpectedFloor(k - 1)

\* C6: in run_cppi_dynamic_floor a step that records the weight 1.0 sets the
\* floor level to floor * (portfolio value before the step's return), any
\* other step leaves it unchanged, and every rebalance on a positive value
\* computes its weight from the floor level left by the steps before it.
C6_RatchetedFloorUsed ==
    fn = "run_cppi_dynamic_floor" =>
        /\ dynamic_floor = ExpectedFloor(Len(weight_risky))
        /\ \A k \in Recorded :
              (IsRebalanceStep(k) /\ Positive(ValueBefore(k)))
                 => weight_risky[k]
                      = ExpectedWeight(m, ValueBefore(k), ExpectedFloor(k - 1))

\* C6 witness: a rebalance after a ratchet recorded a weight that the
\* configured floor would not have given.
C6_Witness ==
    /\ fn = "run_cppi_dynamic_floor"
    /\ \E k \in Recorded :
          /\ k > 1
          /\ IsRebalanceStep(k)
          /\ Positive(ValueBefore(k))
          /\ ExpectedFloor(k - 1) # floor
          /\ weight_risky[k] # ExpectedWeight(m, ValueBefore(k), floor)

\* the scenario of C7: one rebalance row, SPY +0.05, SHY 0, floor 0.8, m 3
C7_Scenario ==
    /\ fn = "run_cppi"
    /\ pc = "returned"
    /\ Len(returns) = 1
    /\ returns[1].date \in rebalance_dates
    /\ returns[1].SPY = <<1, 20>>
    /\ returns[1].SHY = Zero
    /\ floor = <<4, 5>>
    /\ m = <<3, 1>>

\* C7: in run_cppi every rebalance step on a positive value records the
\* weight clamp(m * max(value - floor, 0) / value, 0, 1) of the value before
\* the step, every step records value * (1 + w * spy + (1 - w) * shy), and
\* the scenario records weight 0.6 and value 1.03.
C7_StaticStep ==
    fn = "run_cppi" =>
        /\ \A k \in Recorded :
              /\ (IsRebalanceStep(k) /\ Positive(ValueBefore(k)))
                    => weight_risky[k] = ExpectedWeight(m, ValueBefore(k), floor)
              /\ cppi_vals[k]
                   = Mul(ValueBefore(k),
                         Add(One, Add(Mul(weight_risky[k], returns[k].SPY),
                                      Mul(Sub(One, weight_risky[k]),
                                          returns[k].SHY))))
        /\ C7_Scenario => /\ weight_risky = << <<3, 5>> >>
                          /\ cppi_vals = << <<103, 100>> >>

\* C7 witness: the scenario run has returned.
C7_Witness == C7_Scenario

\* C8: with a supported frequency both simulations end by returning a value
\* sequence and a weight sequence as long as the input.
C8_FullLengthResult ==
    (rebalance_freq \in {"D", "W", "ME"} /\ pc \notin {"start", "loop"})
       => /\ pc = "returned"
          /\ Len(cppi_vals) = Len(returns)
          /\ Len(weight_risky) = Len(returns)

BadConfiguration ==
    \/ rebalance_freq \notin {"D", "W", "ME"}
    \/ m[1] <= 0
    \/ floor[1] <= 0
    \/ floor[1] > floor[2]

\* C9 (as stated): an unsupported frequency, a multiplier <= 0 or a floor
\* outside (0, 1] makes the call fail before any step, without sequences.
C9_InvalidConfigurationRejected ==
    (BadConfiguration /\ pc # "start")
       => /\ pc = "raised"
          /\ cppi_vals = <<>>
          /\ weight_risky = <<>>

\* C9 (amended): a frequency string that resample does not accept makes the
\* call raise ValueError before any step and without sequences; no other
\* argument is validated, so with a supported frequency no ValueError is
\* raised whatever the multiplier and the floor are.
C9_OnlyFrequencyRejected ==
    pc # "start" =>
        IF rebalance_freq \notin {"D", "W", "ME"}
        THEN /\ pc = "raised"
             /\ error = "ValueError"
             /\ i = 0
             /\ cppi_vals = <<>>
             /\ weight_risky = <<>>
        ELSE error # "ValueError"

\* C9 witness: a call on a non-empty frame was rejected for its frequency.
C9_Witness ==
    /\ pc = "raised"
    /\ error = "ValueError"
    /\ Len(returns) > 0
    /\ m[1] > 0

\* ------------------------------------------------------ check_frozen ----
FrozenWeights == {Zero, <<3, 5>>, One}
DefaultThreshold == <<1, 2>>
Thresholds == {DefaultThreshold, <<2, 5>>}

\* (w_array == 0).mean(); the mean of an empty series is nan
FrozenFraction(ws) ==
    Div(<<Cardinality({k \in 1..Len(ws) : Eq(ws[k], Zero)}), 1>>,
        <<Len(ws), 1>>)

\* return frozen_fraction >= threshold, frozen_fraction
CheckFrozenStrict(ws, th) ==
    <<Less(th, FrozenFraction(ws)), FrozenFraction(ws)>>

CheckFrozen(ws, th) == <<Leq(th, FrozenFraction(ws)), FrozenFraction(ws)>>

InitFrozen ==
    /\ fn = "run_cppi"
    /\ returns = <<>>
    /\ floor = <<4, 5>>
    /\ m = <<3, 1>>
    /\ rebalance_freq = "W"
    /\ pc = "idle"
    /\ i = 0
    /\ portfolio_value = One
    /\ w = Zero
    /\ dynamic_floor = floor
    /\ rebalance_dates = {}
    /\ cppi_vals = <<>>
    /\ weight_risky = <<>>
    /\ error = ""
    /\ strategy_weights \in UNION {[1..n -> FrozenWeights] : n \in 0..MaxW}
    /\ threshold \in Thresholds
    /\ fpc = "call"
    /\ frozen_result = NoResult
    /\ MetricsIdle

check_frozen ==
    /\ fpc = "call"
    /\ frozen_result' = CheckFrozen(strategy_weights, threshold)
    /\ fpc' = "returned"
    /\ UNCHANGED <<strategy_weights, threshold>>
    /\ UNCHANGED <<simvars, metricvars>>

NextFrozen == check_frozen

SpecFrozen == InitFrozen /\ [][NextFrozen]_vars

ZeroCount(ws) == Cardinality({k \in 1..Len(ws) : ws[k][1] = 0 /\ ws[k][2] # 0})

\* C10: on a non-empty weight sequence check_frozen returns (frozen,
\* fraction) with fraction = (number of entries equal to 0) / length and
\* frozen true exactly when fraction >= threshold, and leaves the sequence
\* as it was; [0,0,0,0,1,1,1,1,1,1] at threshold 0.5 gives (False, 0.4) and
\* [0,0,0,0,0,0,1,0,0,0] gives (True, 0.9).
C10_CheckFrozen ==
    [][(fpc = "call" /\ fpc' = "returned" /\ Len(strategy_weights) > 0)
         => LET f == frozen_result'[2]
                n == Len(strategy_weights)
            IN  /\ strategy_weights' = strategy_weights
                /\ f[2] > 0
                /\ f[1] * n = ZeroCount(strategy_weights) * f[2]
                /\ frozen_result'[1]
                     <=> (f[1] * threshold[2] >= threshold[1] * f[2])
                /\ (strategy_weights
                      = <<Zero, Zero, Zero, Zero, One, One, One, One, One, One>>
                    /\ threshold = <<1, 2>>)
                      => frozen_result' = <<FALSE, <<2, 5>>>>
                /\ (strategy_weights
                      = <<Zero, Zero, Zero, Zero, Zero, Zero, One, Zero, Zero,
                          Zero>>
                    /\ threshold = <<1, 2>>)
                      => frozen_result' = <<TRUE, <<9, 10>>>>]_vars

\* C10 witness: check_frozen has returned for a sequence whose zero fraction
\* equals the threshold exactly.
C10_Witness ==
    /\ fpc = "returned"
    /\ strategy_weights
         = <<Zero, Zero, Zero, Zero, One, One, One, One, One, One>>
    /\ threshold = <<2, 5>>
    /\ frozen_result = <<TRUE, <<2, 5>>>>

\* ------------------------------------- max_drawdown, performance_metrics ----
\* Value series are drawn from values >= 0; performance_metrics is called on
\* positive values only (a zero value would put inf among the returns).
\* Kurtosis and skewness are irrational in general and are left out.
SeriesValues == {<<0, 1>>, <<1, 2>>, <<1, 1>>, <<2, 1>>}
VarConfs == {<<19, 20>>, <<1, 2>>}
AnnPeriods == 252

Sign(x) == IF x[1] > 0 THEN 1 ELSE IF x[1] < 0 THEN -1 ELSE 0

RECURSIVE SeqSum(_)
SeqSum(xs) == IF xs = <<>> THEN Zero ELSE Add(Head(xs), SeqSum(Tail(xs)))

\* Series.mean(): nan for an empty series
Mean(xs) == Div(SeqSum(xs), <<Len(xs), 1>>)

\* square of Series.std() (ddof = 1): nan for fewer than two entries
Variance(xs) ==
    IF Len(xs) < 2 THEN NaN
    ELSE LET mu == Mean(xs)
             dev == [k \in 1..Len(xs) |-> Mul(Sub(xs[k], mu), Sub(xs[k], mu))]
         IN  Div(SeqSum(dev), <<Len(xs) - 1, 1>>)

\* cumreturn_series.pct_change().dropna()
PctChangeIdentity(vals) == vals

PctChange(vals) ==
    IF Len(vals) < 2 THEN <<>>
    ELSE [k \in 1..(Len(vals) - 1) |-> Sub(Div(vals[k + 1], vals[k]), One)]

\* (daily_returns.mean() / daily_returns.std()) * ann_factor
SharpeRatio(rs) ==
    LET mu == Mean(rs)
        v == Variance(rs)
    IN  IF IsNaN(mu) \/ IsNaN(v) THEN NanStat
        ELSE IF v = Zero
        THEN IF mu = Zero THEN NanStat
             ELSE [kind |-> "inf", sign |-> Sign(mu), sq |-> NaN]
        ELSE [kind |-> "finite", sign |-> Sign(mu),
              sq |-> Mul(Div(Mul(mu, mu), v), <<AnnPeriods, 1>>)]

\* daily_returns.std() * np.sqrt(252)
Volatility(rs) ==
    LET v == Variance(rs)
    IN  IF IsNaN(v) THEN NanStat
        ELSE [kind |-> "finite", sign |-> Sign(v),
              sq |-> Mul(v, <<AnnPeriods, 1>>)]

\* cum_return_series.cummax() at position k
RECURSIVE CumMin(_, _)
CumMin(vals, k) ==
    IF k = 1 THEN vals[1]
    ELSE LET p == CumMin(vals, k - 1)
         IN  IF Less(vals[k], p) THEN vals[k] ELSE p

RECURSIVE CumMax(_, _)
CumMax(vals, k) ==
    IF k = 1 THEN vals[1]
    ELSE LET p == CumMax(vals, k - 1)
         IN  IF Less(p, vals[k]) THEN vals[k] ELSE p

\* Series.min(): nan entries are skipped, nan if nothing is left
RECURSIVE NanMin(_)
NanMin(xs) ==
    IF xs = <<>> THEN NaN
    ELSE LET rest == NanMin(Tail(xs))
             x == Head(xs)
         IN  IF IsNaN(x) THEN rest
             ELSE IF IsNaN(rest) THEN x
             ELSE IF Less(rest, x) THEN rest ELSE x

\* max_drawdown(cum_return_series)
MaxDrawdown(vals) ==
    NanMin([k \in 1..Len(vals) |->
              Div(Sub(vals[k], CumMax(vals, k)), CumMax(vals, k))])

\* the entries of xs in ascending order
RECURSIVE Ascending(_)
Ascending(xs) ==
    IF xs = <<>> THEN <<>>
    ELSE LET j == CHOOSE a \in 1..Len(xs) :
                    \A b \in 1..Len(xs) : ~Less(xs[b], xs[a])
         IN  <<xs[j]>> \o Ascending(SubSeq(xs, 1, j - 1)
                                   \o SubSeq(xs, j + 1, Len(xs)))

\* Series.quantile(q) with linear interpolation; nan for an empty series
Quantile(xs, q) ==
    IF xs = <<>> THEN NaN
    ELSE LET n == Len(xs)
             sorted == Ascending(xs)
             pos == Mul(q, <<n - 1, 1>>)
             lo == pos[1] \div pos[2]
             hi == IF lo + 1 <= n - 1 THEN lo + 1 ELSE lo
             frac == Sub(pos, <<lo, 1>>)
         IN  Add(sorted[lo + 1],
                 Mul(frac, Sub(sorted[hi + 1], sorted[lo + 1])))

\* daily_returns[daily_returns <= var].mean()
TailMeanAbove(rs, v) == Mean(SelectSeq(rs, LAMBDA x : Leq(v, x)))

TailMean(rs, v) == Mean(SelectSeq(rs, LAMBDA x : Leq(x, v)))

\* the Series performance_metrics returns
Metrics(vals, conf) ==
    LET daily_returns == PctChange(vals)
        var == Quantile(daily_returns, Sub(One, conf))
    IN  [sharpe |-> SharpeRatio(daily_returns),
         vol |-> Volatility(daily_returns),
         mdd |-> MaxDrawdown(vals),
         var |-> var,
         cvar |-> TailMean(daily_returns, var)]

InitMetrics ==
    /\ fn = "run_cppi"
    /\ returns = <<>>
    /\ floor = <<4, 5>>
    /\ m = <<3, 1>>
    /\ rebalance_freq = "W"
    /\ pc = "idle"
    /\ i = 0
    /\ portfolio_value = One
    /\ w = Zero
    /\ dynamic_floor = floor
    /\ rebalance_dates = {}
    /\ cppi_vals = <<>>
    /\ weight_risky = <<>>
    /\ error = ""
    /\ strategy_weights = <<>>
    /\ threshold = DefaultThreshold
    /\ fpc = "idle"
    /\ frozen_result = NoResult
    /\ mfn \in {"max_drawdown", "performance_metrics"}
    /\ cumreturn_series \in UNION {[1..n -> SeriesValues] : n \in 0..MaxVals}
    /\ mfn = "performance_metrics"
         => \A k \in 1..Len(cumreturn_series) : cumreturn_series[k][1] > 0
    /\ var_conf \in VarConfs
    /\ mfn = "max_drawdown" => var_conf = <<19, 20>>
    /\ mpc = "call"
    /\ metrics = NoMetrics

max_drawdown ==
    /\ mfn = "max_drawdown"
    /\ mpc = "call"
    /\ metrics' = [NoMetrics EXCEPT !.mdd = MaxDrawdown(cumreturn_series)]
    /\ mpc' = "returned"
    /\ UNCHANGED <<mfn, cumreturn_series, var_conf>>
    /\ UNCHANGED <<simvars, frozenvars>>

performance_metrics ==
    /\ mfn = "performance_metrics"
    /\ mpc = "call"
    /\ metrics' = Metrics(cumreturn_series, var_conf)
    /\ mpc' = "returned"
    /\ UNCHANGED <<mfn, cumreturn_series, var_conf>>
    /\ UNCHANGED <<simvars, frozenvars>>

NextMetrics ==
    \/ max_drawdown
    \/ performance_metrics

SpecMetrics == InitMetrics /\ [][NextMetrics]_vars

\* the returns performance_metrics derives from its input
DerivedReturns == PctChange(cumreturn_series)
MetricsReturned == mfn = "performance_metrics" /\ mpc = "returned"

ZeroStd ==
    /\ Len(DerivedReturns) >= 2
    /\ \A k \in 1..Len(DerivedReturns) : DerivedReturns[k] = DerivedReturns[1]

\* C11: when the derived returns have zero standard deviation,
\* performance_metrics signals it and returns no nan or infinite Sharpe Ratio.
C11_ZeroStdSignalled ==
    (mfn = "performance_metrics" /\ mpc # "call" /\ ZeroStd)
       => /\ mpc # "returned"
          /\ metrics.sharpe.kind = "finite"

AllZeroReturns ==
    \A k \in 1..Len(returns) : returns[k].SPY = Zero /\ returns[k].SHY = Zero

\* C12: when both assets return 0 on every row, every recorded portfolio
\* value is exactly 1.0 and the Max Drawdown of the returned value series
\* is exactly 0.
C12_FlatOnZeroReturns ==
    AllZeroReturns =>
        /\ \A k \in 1..Len(cppi_vals) : cppi_vals[k] = One
        /\ (pc = "returned" /\ Len(returns) > 0)
              => MaxDrawdown(cppi_vals) = Zero

\* C12 witness: a run over zero returns has returned after holding a
\* non-zero risky weight.
C12_Witness ==
    /\ AllZeroReturns
    /\ pc = "returned"
    /\ Len(cppi_vals) >= 2
    /\ \E k \in Recorded : weight_risky[k] # Zero

\* some value of the series lies below an earlier one
FallsBelowPeak(vals) ==
    \E k \in 1..Len(vals) : \E j \in 1..(k - 1) : Less(vals[k], vals[j])

DrawdownAsClaimed ==
    /\ ~IsNaN(metrics.mdd)
    /\ metrics.mdd[1] <= 0
    /\ metrics.mdd = Zero <=> ~FallsBelowPeak(cumreturn_series)

RECURSIVE SumAt(_)
SumAt(S) ==
    IF S = {} THEN Zero
    ELSE LET k == CHOOSE j \in S : TRUE
         IN  Add(DerivedReturns[k], SumAt(S \ {k}))

\* C14: with at least one derived return, the returned CVaR is defined, is
\* the mean of the returns at or below the returned VaR, and is <= that VaR.
C14_CVaRBelowVaR ==
    (MetricsReturned /\ Len(DerivedReturns) >= 1) =>
        LET v == metrics.var
            c == metrics.cvar
            tail == {k \in 1..Len(DerivedReturns) :
                       DerivedReturns[k][1] * v[2] <= v[1] * DerivedReturns[k][2]}
        IN  /\ ~IsNaN(v)
            /\ ~IsNaN(c)
            /\ tail # {}
            /\ Mul(c, <<Cardinality(tail), 1>>) = SumAt(tail)
            /\ c[1] * v[2] <= v[1] * c[2]

\* C14 witness: metrics were returned for three or more returns with the
\* CVaR strictly below an interpolated VaR.
C14_Witness ==
    /\ MetricsReturned
    /\ Len(DerivedReturns) >= 3
    /\ \A k \in 1..Len(DerivedReturns) : DerivedReturns[k] # metrics.var
    /\ Less(metrics.cvar, metrics.var)

\* smallest of a non-empty set of rationals
MinOf(S) == CHOOSE x \in S : \A y \in S : x[1] * y[2] <= y[1] * x[2]
MaxOf(S) == CHOOSE x \in S : \A y \in S : y[1] * x[2] <= x[1] * y[2]

\* min over the points of (value - running peak) / running peak
DrawdownOf(vals) ==
    MinOf({ LET peak == MaxOf({vals[j] : j \in 1..k})
            IN  Div(Sub(vals[k], peak), peak) : k \in 1..Len(vals) })

\* running product of (1 + r) over a return series
RECURSIVE Wealth(_, _)
Wealth(rs, k) ==
    IF k = 0 THEN One ELSE Mul(Wealth(rs, k - 1), Add(One, rs[k]))

\* period-over-period change of a value series, first entry dropped
ChangeOf(vals) ==
    IF Len(vals) < 2 THEN <<>>
    ELSE [k \in 1..(Len(vals) - 1) |->
            Div(Sub(vals[k + 1], vals[k]), vals[k])]

\* C15 (as stated): performance_metrics reads its input as per-period
\* returns: Max Drawdown is taken on the running product of (1 + r) of the
\* input and the other statistics on the input itself.
C15_InputReadAsReturns ==
    (MetricsReturned /\ Len(cumreturn_series) >= 1) =>
        /\ metrics.mdd
             = DrawdownOf([k \in 1..Len(cumreturn_series) |->
                             Wealth(cumreturn_series, k)])
        /\ metrics.var = Quantile(cumreturn_series, Sub(One, var_conf))

\* C15 (amended): performance_metrics reads its input as cumulative values:
\* Max Drawdown is the minimum of (value - running peak) / running peak over
\* the input values themselves, and the other statistics are computed on
\* the period-over-period percentage change of the input.
C15_InputReadAsValues ==
    (MetricsReturned /\ Len(cumreturn_series) >= 1) =>
        LET rs == ChangeOf(cumreturn_series)
            v == Quantile(rs, Sub(One, var_conf))
        IN  /\ metrics.mdd = DrawdownOf(cumreturn_series)
            /\ metrics.var = v
            /\ metrics.cvar = Mean(SelectSeq(rs, LAMBDA x : Leq(x, v)))
            /\ metrics.sharpe = SharpeRatio(rs)
            /\ metrics.vol = Volatility(rs)

\* C15 witness: metrics were returned whose drawdown and VaR both differ
\* from what reading the input as returns would give.
C15_Witness ==
    /\ MetricsReturned
    /\ Len(cumreturn_series) >= 3
    /\ metrics.mdd[1] < 0
    /\ metrics.mdd # DrawdownOf([k \in 1..Len(cumreturn_series) |->
                                   Wealth(cumreturn_series, k)])
    /\ metrics.var # Quantile(cumreturn_series, Sub(One, var_conf))

\* C16: in run_cppi_dynamic_floor with floor in (0, 1] and m > 0, once the
\* weight 1.0 is recorded and rebalance steps still follow, one of them
\* records a weight strictly below 1.0 (stated here for runs whose portfolio
\* value stays positive, so that no division by zero is involved).
C16_LeavesFullAllocation ==
    ( /\ fn = "run_cppi_dynamic_floor"
      /\ pc = "returned"
      /\ ~BadConfiguration
      /\ \A k \in Recorded : Positive(cppi_vals[k]) )
    => \A k \in Recorded :
          (weight_risky[k] = One /\ \E j \in Recorded : j > k /\ IsRebalanceStep(j))
             => \E j \in Recorded :
                   /\ j > k
                   /\ IsRebalanceStep(j)
                   /\ weight_risky[j][1] < weight_risky[j][2]

\* the floor a rebalance at recorded step k works with
FloorInForce(k) ==
    IF fn = "run_cppi" THEN floor ELSE ExpectedFloor(k - 1)

\* C17: with the daily frequency every date of the series is a rebalance
\* date, so every step on a positive value records the weight computed from
\* the cushion of that step.
C17_DailyRebalancesEveryStep ==
    (rebalance_freq = "D" /\ pc \in {"loop", "returned"}) =>
        /\ RowDates \subseteq rebalance_dates
        /\ \A k \in Recorded :
              Positive(ValueBefore(k))
                 => weight_risky[k]
                      = ExpectedWeight(m, ValueBefore(k), FloorInForce(k))

\* C17 witness: a daily run over dates with a gap has returned with two
\* different weights.
C17_Witness ==
    /\ rebalance_freq = "D"
    /\ pc = "returned"
    /\ Len(returns) >= 2
    /\ returns[2].date > returns[1].date + 1
    /\ weight_risky[1] # weight_risky[2]
    /\ ~IsNaN(weight_risky[2])

\* weight and value that the static-floor rule gives after k rows of the
\* input, from weight 0.0 and value 1.0
RECURSIVE StaticRun(_)
StaticRun(k) ==
    IF k = 0 THEN <<Zero, One>>
    ELSE LET prev == StaticRun(k - 1)
             wt == IF IsRebalanceStep(k)
                   THEN ExpectedWeight(m, prev[2], floor)
                   ELSE prev[1]
         IN  <<wt, Mul(prev[2],
                       Add(One, Add(Mul(wt, returns[k].SPY),
                                    Mul(Sub(One, wt), returns[k].SHY))))>>

StaticWeight(k) == StaticRun(k)[1]
StaticValue(k) == StaticRun(k)[2]

NoFullAllocationBefore(k) == \A j \in 1..(k - 1) : weight_risky[j] # One

RECURSIVE SafeProduct(_)
SafeProduct(k) ==
    IF k = 0 THEN One
    ELSE Mul(SafeProduct(k - 1), Add(One, returns[k].SHY))

\* C19: every step recorded before the first rebalance date has weight 0.0
\* and the running product of (1 + safe return) as value; with no rebalance
\* date in the series this is every step of the run.
C19_SafeOnlyBeforeFirstRebalance ==
    \A k \in Recorded :
        (\A j \in 1..k : ~IsRebalanceStep(j))
           => /\ weight_risky[k] = Zero
              /\ cppi_vals[k] = SafeProduct(k)

\* C19 witness: a run without any rebalance date has returned, the safe
\* asset having moved the value while the risky asset moved too.
C19_Witness ==
    /\ pc = "returned"
    /\ Len(returns) >= 2
    /\ \A k \in 1..Len(returns) : ~IsRebalanceStep(k)
    /\ \E k \in 1..Len(returns) : returns[k].SPY # Zero
    /\ cppi_vals[Len(cppi_vals)] # One

\* recorded step k is a rebalance on a positive value at or below the floor
AtOrBelowFloor(k) ==
    /\ IsRebalanceStep(k)
    /\ Positive(ValueBefore(k))
    /\ Leq(ValueBefore(k), FloorInForce(k))

\* recorded step k is a rebalance on a value above the floor
AboveFloor(k) ==
    /\ IsRebalanceStep(k)
    /\ Less(FloorInForce(k), ValueBefore(k))

====
